---- MODULE Spec2Model ----
(***************************************************************************)
(* text2mdparser: the batch processor (src/src/main.py, process_directory) *)
(* and the protocol adapter (src/src/api_handler.py, call_llm_api) as a    *)
(* state machine.  The file system is part of the state: the input tree,   *)
(* the modification times of the inputs, the output directories and the    *)
(* output files with their modification time and content.                  *)
(***************************************************************************)
EXTENDS Integers, Sequences, FiniteSets, TLC

\* ------------------------------------------------------------------ bounds
MaxTime == 1        \* the clock runs over 0..MaxTime
MaxRuns == 2        \* successive runs of process_directory
MaxVisits == 2      \* file visits over all runs: (number of runs) * (number of .txt files)
MaxLen == 1         \* longest content the backend answers with
MaxTokens == 1      \* largest max_tokens a caller passes

\* Python's None, as a value no text equals.
None == <<"None">>

\* ------------------------------------------------------------------ paths
\* A path below a root is a record: the directories below the root and the
\* file name split at its dots ("b.txt" is <<"b", "txt">>).
FileA == [dir |-> <<>>,      name |-> <<"a", "txt">>]
FileB == [dir |-> <<"sub">>, name |-> <<"b", "txt">>]
FileN == [dir |-> <<"sub">>, name |-> <<"n", "md">>]

Entries == {FileA, FileB, FileN}

\* The value of a path variable that holds no path.
NoPath == [dir |-> <<>>, name |-> <<>>]

\* Path.rglob('*.txt'): every entry of the tree whose name ends in ".txt".
\* (glob is the faulty variant that does not descend into subdirectories.)
glob(t) == {e \in t : e.dir = <<>> /\ Len(e.name) >= 2 /\ e.name[Len(e.name)] = "txt"}
rglob(t) == {e \in t : Len(e.name) >= 2 /\ e.name[Len(e.name)] = "txt"}

\* The .txt files among the entries.
TxtEntries == {FileA, FileB}

\* PurePath.with_suffix: the last suffix of the name is replaced.
with_suffix(name, suffix) ==
    IF Len(name) >= 2
    THEN [i \in 1..Len(name) |-> IF i = Len(name) THEN suffix ELSE name[i]]
    ELSE Append(name, suffix)

\* main.py 80-82: output_dir_path / relative_path.with_suffix('.md').  The
\* files come from input_dir_path.rglob, so relative_to never raises and the
\* fallback of lines 83-86 is not taken.
\* (OutputFilePath_flat is the faulty variant that drops the directories.)
OutputFilePath_flat(f) == [dir |-> <<>>, name |-> with_suffix(f.name, "md")]
OutputFilePath(f) == [dir |-> f.dir, name |-> with_suffix(f.name, "md")]

\* The directories Path.mkdir(parents=True) has to make for directory d.
Prefixes(d) == {SubSeq(d, 1, n) : n \in 0..Len(d)}

\* ------------------------------------------------------------------ texts
Chars == {"#", " "}
Strings == UNION {[1..n -> Chars] : n \in 0..MaxLen}

RECURSIVE lstrip(_)
lstrip(s) == IF s # <<>> /\ Head(s) = " " THEN lstrip(Tail(s)) ELSE s
RECURSIVE rstrip(_)
rstrip(s) == IF s # <<>> /\ s[Len(s)] = " " THEN rstrip(SubSeq(s, 1, Len(s) - 1)) ELSE s
\* str.strip()
strip(s) == rstrip(lstrip(s))

\* ------------------------------------------------ api_handler.py: values
\* None, the empty string and an identifier, for the optional string
\* parameters of call_llm_api.
NoneStr == "None"
\* (Truthy_notnone is the faulty variant `is not None`.)
Truthy_notnone(x) == x # NoneStr
Truthy(x) == x \notin {NoneStr, ""}

\* str.lower() on the server types a caller can pass.
Lower(st) ==
    CASE st = "LMStudio" -> "lmstudio"
      [] st = "Ollama"   -> "ollama"
      [] OTHER           -> st
ServerTypes == {"lmstudio", "LMStudio", "ollama", "Ollama", "openai"}

\* JSON values, tagged with their Python type.
JNull    == [t |-> "null", v |-> <<>>]
JNum     == [t |-> "num",  v |-> <<>>]
JStr(s)  == [t |-> "str",  v |-> s]
JList(q) == [t |-> "list", v |-> q]
JEmpty   == [t |-> "obj",  v |-> [k \in {} |-> JNull]]
JObj1(key, val) == [t |-> "obj", v |-> [k \in {key} |-> val]]

\* The bodies a backend can answer with.
JContents == {JStr(s) : s \in Strings} \cup {JNull}
JMessages == {JObj1("content", c) : c \in JContents} \cup {JEmpty, JNull}
JChoices  == {JObj1("message", m) : m \in JMessages} \cup {JEmpty, JNull}
JDocs ==
    {JObj1("choices", JList(<<c>>)) : c \in JChoices}
      \cup {JObj1("choices", x) : x \in {JList(<<>>), JNull, JEmpty}}
      \cup {JObj1("message", m) : m \in JMessages}
      \cup {JObj1("not_choices", JList(<<>>)), JEmpty, JNull, JNum, JList(<<>>), JStr(<<"#">>)}

\* Python's `key in x`: a key of a dict; for a list or a string an element
\* or substring test, false for the lists and strings of JDocs; a TypeError
\* for None and numbers.
CanContain(x) == x.t \in {"obj", "list", "str"}
In(key, x) == x.t = "obj" /\ key \in DOMAIN x.v

\* The outcomes of evaluating an expression: a text, a structure the code
\* rejects, or an exception.
Text(s) == [kind |-> "text", value |-> s, exc |-> "none"]
Structure == [kind |-> "structure", value |-> None, exc |-> "none"]
Raised(e) == [kind |-> "exc", value |-> None, exc |-> e]

\* api_handler.py 140 and 153: markdown_content.strip()  (StripContent_raw is
\* the faulty variant that returns the content as it came.)
StripContent_raw(c) == IF c.t = "str" THEN Text(c.v) ELSE Raised("AttributeError")
StripContent(c) == IF c.t = "str" THEN Text(strip(c.v)) ELSE Raised("AttributeError")

\* api_handler.py 145-156: the OpenAI-style response.
ExtractLmstudio(d) ==
    IF ~CanContain(d) THEN Raised("TypeError")
    ELSE IF ~In("choices", d) THEN Structure
    ELSE LET c == d.v["choices"] IN
         IF c.t # "list" THEN Structure
         ELSE IF Len(c.v) = 0 THEN Structure
         ELSE LET e == c.v[1] IN
              IF ~CanContain(e) THEN Raised("TypeError")
              ELSE IF ~In("message", e) THEN Structure
              ELSE LET m == e.v["message"] IN
                   IF ~CanContain(m) THEN Raised("TypeError")
                   ELSE IF ~In("content", m) THEN Structure
                   ELSE StripContent(m.v["content"])

\* api_handler.py 137-143: the Ollama response.
ExtractOllama(d) ==
    IF ~CanContain(d) THEN Raised("TypeError")
    ELSE IF ~In("message", d) THEN Structure
    ELSE LET m == d.v["message"] IN
         IF ~CanContain(m) THEN Raised("TypeError")
         ELSE IF ~In("content", m) THEN Structure
         ELSE StripContent(m.v["content"])

\* The classes an exception belongs to (requests.exceptions and builtins).
Superclasses(e) ==
    CASE e = "Timeout"          -> {"Timeout", "RequestException", "Exception"}
      [] e = "ConnectionError"  -> {"ConnectionError", "RequestException", "Exception"}
      [] e = "ConnectTimeout"   -> {"ConnectTimeout", "ConnectionError", "Timeout",
                                    "RequestException", "Exception"}
      [] e = "RequestException" -> {"RequestException", "Exception"}
      [] e = "JSONDecodeError"  -> {"JSONDecodeError", "ValueError", "Exception"}
      [] e = "TypeError"        -> {"TypeError", "Exception"}
      [] e = "AttributeError"   -> {"AttributeError", "Exception"}
      [] OTHER                  -> {e, "Exception"}

\* What requests.post can raise.
PostExceptions == {"Timeout", "ConnectionError", "ConnectTimeout", "RequestException",
                   "RuntimeError"}

\* The result of call_llm_api: a return value, with the branch that logged
\* it, or an exception that leaves the function.
Return(v, why) == [kind |-> "return", value |-> v, log |-> why]
Propagate(e)   == [kind |-> "raise", value |-> None, log |-> e]

\* api_handler.py 164-185: the except clauses of the outer try, in order.
\* (Handlers_requests_only is the faulty variant without `except Exception`.)
Handlers_requests_only ==
    <<[class |-> "Timeout",          log |-> "timeout"],
      [class |-> "ConnectionError",  log |-> "connection"],
      [class |-> "RequestException", log |-> "request"]>>
Handlers ==
    <<[class |-> "Timeout",          log |-> "timeout"],
      [class |-> "ConnectionError",  log |-> "connection"],
      [class |-> "RequestException", log |-> "request"],
      [class |-> "Exception",        log |-> "unexpected"]>>

Except(e) ==
    LET hit == {i \in 1..Len(Handlers) : Handlers[i].class \in Superclasses(e)}
    IN  IF hit = {} THEN Propagate(e)
        ELSE Return(None, Handlers[CHOOSE i \in hit : \A j \in hit : i <= j].log)

\* api_handler.py 157-159: the except clause of the inner try.
InnerExcept(e) ==
    IF "JSONDecodeError" \in Superclasses(e) THEN Return(None, "json") ELSE Except(e)

\* The outcomes of requests.post: an exception, or a response with a status
\* code and a body that is JSON or not.
NoDoc == JNull
HttpOutcomes ==
    {[kind |-> "raise", exc |-> e, status |-> 0, json |-> FALSE, doc |-> NoDoc] :
        e \in PostExceptions}
      \cup {[kind |-> "response", exc |-> "none", status |-> 200, json |-> TRUE, doc |-> d] :
               d \in JDocs}
      \cup {[kind |-> "response", exc |-> "none", status |-> c, json |-> FALSE, doc |-> NoDoc] :
               c \in {200, 201, 404, 500}}

\* api_handler.py 129-185: the request is sent and the answer is handled.
HandlePost(server_type, h) ==
    IF h.kind = "raise" THEN Except(h.exc)
    ELSE IF h.status = 200
         THEN IF ~h.json THEN InnerExcept("JSONDecodeError")
              ELSE LET x == IF Lower(server_type) = "ollama"
                            THEN ExtractOllama(h.doc)
                            ELSE ExtractLmstudio(h.doc)
                   IN  CASE x.kind = "text"      -> Return(x.value, "ok")
                         [] x.kind = "structure" -> Return(None, "structure")
                         [] OTHER                -> InnerExcept(x.exc)
         ELSE Return(None, "status")

\* What call_llm_api can hand to process_directory (main.py 121-130).
AdapterResults == {HandlePost(st, h) : st \in ServerTypes, h \in HttpOutcomes}
AdapterReturns == {r.value : r \in {x \in AdapterResults : x.kind = "return"}}
AdapterRaises  == \E r \in AdapterResults : r.kind = "raise"

\* ------------------------------------------------ the request of call_llm_api
\* The arguments a caller can pass.  max_tokens is None (given = FALSE) or a
\* number; model_identifier and api_key are None, empty or a text.
ModelIds == {NoneStr, "", "m"}
ApiKeys == {NoneStr, "", "k"}
NoTokens == [given |-> FALSE, n |-> 0]
MaxTokensArgs == {NoTokens} \cup {[given |-> TRUE, n |-> k] : k \in 0..MaxTokens}
Requests == [server_type : ServerTypes, model_identifier : ModelIds,
             api_key : ApiKeys, max_tokens : MaxTokensArgs]

\* api_handler.py 79: the readiness step runs for LM Studio with a model.
NeedsReadiness(r) == Lower(r.server_type) = "lmstudio" /\ Truthy(r.model_identifier)

\* api_handler.py 117: max_tokens is not None.  (HasMaxTokens_truthy is the
\* faulty variant `if max_tokens`, which drops a limit of 0.)
HasMaxTokens_truthy(mt) == mt.given /\ mt.n # 0
HasMaxTokens(mt) == mt.given

\* api_handler.py 99-121: the request body; keys are the fields present.
Payload(r) ==
    IF Lower(r.server_type) = "ollama"
    THEN [keys |-> {"model", "messages", "stream", "options.temperature",
                    "options.num_predict"},
          model |-> r.model_identifier,
          max_tokens |-> 0,
          num_predict |-> IF r.max_tokens.given /\ r.max_tokens.n # 0
                          THEN r.max_tokens.n ELSE -1]
    ELSE [keys |-> {"messages", "temperature", "stream"}
                     \cup (IF HasMaxTokens(r.max_tokens) THEN {"max_tokens"} ELSE {})
                     \cup (IF Truthy(r.model_identifier) THEN {"model"} ELSE {}),
          model |-> IF Truthy(r.model_identifier) THEN r.model_identifier ELSE NoneStr,
          max_tokens |-> IF HasMaxTokens(r.max_tokens) THEN r.max_tokens.n ELSE 0,
          num_predict |-> 0]

\* api_handler.py 123-127: the request headers.
RequestHeaders(r) ==
    [keys |-> {"Content-Type"} \cup (IF Truthy(r.api_key) THEN {"Authorization"} ELSE {}),
     bearer |-> IF Truthy(r.api_key) THEN r.api_key ELSE NoneStr]

\* api_handler.py 8-22: get_lmstudio_loaded_models.  The GET raises, or
\* answers with a status and a body: a list of entries under `data` (an
\* entry is an id, or lacks one), no `data`, something that is no object,
\* or no JSON at all.
NoId == "<no id>"
ModelLists == {<<>>, <<"m">>, <<"x">>, <<"x", "m">>, <<NoId>>, <<"m", NoId>>}
GetOutcomes ==
    {[kind |-> "raise", exc |-> e, status |-> 0, shape |-> "none", data |-> <<>>] :
        e \in {"ConnectionError", "InvalidURL"}}
      \cup {[kind |-> "response", exc |-> "none", status |-> c, shape |-> "text",
             data |-> <<>>] : c \in {200, 404, 500}}
      \cup {[kind |-> "response", exc |-> "none", status |-> 200, shape |-> sh,
             data |-> <<>>] : sh \in {"no_data", "not_object"}}
      \cup {[kind |-> "response", exc |-> "none", status |-> 200, shape |-> "data",
             data |-> l] : l \in ModelLists}

\* api_handler.py 13-19: the body of the try block; its value is the list
\* of ids.
ListModelsBody(g) ==
    IF g.kind = "raise" THEN Raised(g.exc)
    ELSE IF g.status # 200 THEN Text(<<>>)
    ELSE CASE g.shape = "data" ->
                 IF \E i \in 1..Len(g.data) : g.data[i] = NoId
                 THEN Raised("KeyError") ELSE Text(g.data)
           [] g.shape = "no_data"    -> Text(<<>>)
           [] g.shape = "not_object" -> Raised("AttributeError")
           [] OTHER                  -> Raised("JSONDecodeError")

\* api_handler.py 20-22: except Exception.  (ListModelsHandlers_requests is
\* the faulty variant that catches the errors of the request only.)
ListModelsHandlers_requests == {"RequestException"}
ListModelsHandlers == {"Exception"}
get_lmstudio_loaded_models(g) ==
    LET b == ListModelsBody(g)
    IN  IF b.kind = "text" THEN Return(b.value, "models")
        ELSE IF ListModelsHandlers \cap Superclasses(b.exc) # {}
             THEN Return(<<>>, "models_error")
             ELSE Propagate(b.exc)

\* api_handler.py 24-44: load_lmstudio_model.  `lms load` exits with a
\* code, or subprocess.run raises: the command timed out, is not installed,
\* or failed otherwise.
LoadOutcomes == {"exit 0", "exit 1", "TimeoutExpired", "FileNotFoundError", "OSError"}
\* (LoadHandlers_named is the faulty variant without `except Exception`.)
LoadHandlers_named == {"TimeoutExpired", "FileNotFoundError"}
LoadHandlers == {"TimeoutExpired", "FileNotFoundError", "Exception"}
load_lmstudio_model(o) ==
    IF o \in {"exit 0", "exit 1"} THEN Return(o = "exit 0", "load")
    ELSE IF LoadHandlers \cap Superclasses(o) # {} THEN Return(FALSE, "load_error")
         ELSE Propagate(o)

\* The timeout argument of the two network calls: requests.get at
\* api_handler.py 13 is called without one, and requests then waits for the
\* server without limit; requests.post at 131 gets the caller's timeout.
GetTimeout == NoneStr
PostTimeout == "timeout"

\* A server that never answers the GET, the POST.
SilentGet == [kind |-> "silent", exc |-> "none", status |-> 0, shape |-> "none",
              data |-> <<>>]
SilentPost == [kind |-> "silent", exc |-> "none", status |-> 0, json |-> FALSE,
               doc |-> NoDoc]

\* A call without a timeout to a server that never answers does not return;
\* with a timeout it raises requests.exceptions.Timeout.
Blocks(timeout, g) == g.kind = "silent" /\ timeout = NoneStr
TimedOut(g) == IF g.kind = "silent" THEN [g EXCEPT !.kind = "raise", !.exc = "Timeout"]
               ELSE g

\* api_handler.py 82: model_identifier not in loaded_models.  (NotLoaded_first
\* is the faulty variant that looks at the first loaded model only.)
NotLoaded_first(model, models) == models = <<>> \/ models[1] # model
NotLoaded(model, models) == \A i \in 1..Len(models) : models[i] # model

\* -------------------------------------------- the call site of the adapter
\* config_handler.py 49-96: the values load_config returns for the API, each
\* standing for itself; the server type and the API key are the two that the
\* adapter looks at.
Config ==
    [type |-> "ollama", api_url |-> "<api_url>", api_key |-> "k",
     api_timeout |-> "<api_timeout>", model_identifier |-> "m",
     system_prompt |-> "<system_prompt>", temperature |-> "<temperature>",
     max_tokens |-> "<max_tokens>", context_length |-> "<context_length>"]

\* api_handler.py 46-56: the parameters of call_llm_api, in order.
Parameters ==
    <<"text_content", "api_url", "server_type", "api_key", "timeout",
      "model_identifier", "system_prompt", "temperature", "max_tokens">>

\* main.py 121-130: the arguments of the call, positional and by keyword.
CallSite(content) ==
    [positional |-> <<content, Config.api_url, Config.api_key>>,
     keywords |-> [timeout |-> Config.api_timeout,
                   model_identifier |-> Config.model_identifier,
                   system_prompt |-> Config.system_prompt,
                   temperature |-> Config.temperature,
                   max_tokens |-> Config.max_tokens]]
NoCall == [positional |-> <<>>, keywords |-> [k \in {} |-> ""]]

\* The names of the arguments a call passes, and the value a parameter of
\* call_llm_api is bound to: positional arguments fill the parameters in
\* order, keywords go by name, the rest keep their defaults.
Passed(call) ==
    {Parameters[i] : i \in 1..Len(call.positional)} \cup DOMAIN call.keywords
Bound(call, p) ==
    IF \E i \in 1..Len(call.positional) : Parameters[i] = p
    THEN call.positional[CHOOSE i \in 1..Len(call.positional) : Parameters[i] = p]
    ELSE IF p \in DOMAIN call.keywords THEN call.keywords[p] ELSE "<default>"

\* The strict prefixes of a text: what an interrupted write leaves behind.
StrictPrefixes(s) == {SubSeq(s, 1, n) : n \in 0..(Len(s) - 1)}

\* ---------------------------------------------------- decisions of main.py
\* main.py 89-95: which branch of the caching logic a file takes.
\* (CachingBranch_noforce is the faulty variant that ignores the force flag.)
CachingBranch_noforce(force, enabled) ==
    IF ~enabled THEN "disabled" ELSE "cache"
CachingBranch(force, enabled) ==
    IF force THEN "forced" ELSE IF ~enabled THEN "disabled" ELSE "cache"

\* main.py 100: the output is up to date.  (Faulty variants: a strict
\* comparison, a test that always succeeds, swapped operands.)
UpToDate_strict(out_mtime, in_mtime) == out_mtime > in_mtime
UpToDate_always(out_mtime, in_mtime) == TRUE
UpToDate_reversed(out_mtime, in_mtime) == in_mtime >= out_mtime
UpToDate(out_mtime, in_mtime) == out_mtime >= in_mtime

\* main.py 52: the input root is a directory.  (InputDirOk_unchecked is the
\* faulty variant that goes on without looking.)
InputDirOk_unchecked(is_dir) == TRUE
InputDirOk(is_dir) == is_dir

\* main.py 62: the scan found nothing.  (NoFilesFound_never is the faulty
\* variant without the early return.)
NoFilesFound_never(txt_files) == FALSE
NoFilesFound(txt_files) == txt_files = {}

\* main.py 132: the adapter reported a failure.  (IsFailure_never is the
\* faulty variant without the test, IsFailure_falsy the variant `if not
\* markdown_output`.)
IsFailure_never(md) == FALSE
IsFailure_falsy(md) == md \in {None, <<>>}
IsFailure(md) == md = None

\* main.py 136: this is the first failure of the run.  (FirstFailure_any is
\* the faulty variant that flags every adapter failure.)
FirstFailure_any(failed) == failed >= 1
FirstFailure(failed) == failed = 1

\* main.py 165: the diagnostic block is logged.
ShowDiagnostic(flag, failed) == flag /\ failed > 0

VARIABLES
    tree,                 \* the entries below the input root
    input_is_dir,         \* input_dir_path.is_dir()
    in_mtime,             \* st_mtime of every input file
    now,                  \* the clock
    enabled_flag,         \* config['caching_enabled']
    force_reprocess_all_flag, \* config['caching_force_reprocess_all']
    outdirs,              \* the directories that exist at or below the output root
    outfs,                \* output path -> [exists, mtime, content]
    run,                  \* number of the current run of process_directory
    pc,                   \* position in process_directory
    todo,                 \* the files of txt_files the loop has not visited
    file_path,
    output_file_path,
    input_mtime,
    output_mtime,
    file_content,
    markdown_output,
    processed_count,
    skipped_count,
    failed_count,
    connection_error_encountered,
    logged,               \* the log lines of this run that matter
    hist,                 \* what this run did with each file
    removed,              \* outputs someone else removed during this run
    started,              \* the time at which the current run started
    prev,                 \* what is remembered of the previous run
    out0,                 \* outfs when the current run started
    touched,              \* inputs modified since the last run ended
    changed,              \* inputs modified between the previous run and this one
    api_pc,               \* position in call_llm_api
    req,                  \* the arguments of call_llm_api
    gets,                 \* loaded-model listing requests sent, each with its answer
    loaded_models,        \* what get_lmstudio_loaded_models returned
    loads,                \* calls of load_lmstudio_model
    posts,                \* chat-completion requests sent, each with its answer
    api_result            \* what call_llm_api hands back

envvars == <<tree, input_is_dir, in_mtime, now, enabled_flag, force_reprocess_all_flag>>
runvars == <<run, started, prev, out0, touched, changed>>
locals == <<file_path, output_file_path, input_mtime, output_mtime,
            file_content, markdown_output>>
counters == <<processed_count, skipped_count, failed_count,
              connection_error_encountered>>
batchvars == <<envvars, runvars, outdirs, outfs, pc, todo, locals, counters,
               logged, hist, removed>>
apivars == <<api_pc, req, gets, loaded_models, loads, posts, api_result>>

vars == <<batchvars, apivars>>

Times == 0..MaxTime

\* The paths below the output root that can hold an output: the mirrored
\* path of every input and the same name directly below the root.
OutKeys == {[dir |-> d, name |-> with_suffix(e.name, "md")] :
               d \in {<<>>, <<"sub">>}, e \in TxtEntries}
Absent == [exists |-> FALSE, mtime |-> 0, content |-> <<>>]

\* What earlier runs can have left below the output root: for every input
\* an output at the mirrored path, or none.
OldOutputs(t) ==
    {o \in [OutKeys -> {Absent} \cup [exists : {TRUE}, mtime : Times, content : {<<"#">>}]] :
        \A k \in OutKeys :
           o[k].exists => \E e \in t \cap TxtEntries :
                              k = [dir |-> e.dir, name |-> <<e.name[1], "md">>]}

\* What a run did with a file: the branch of the caching logic (dec), the
\* read, the number of adapter calls and the arguments of the last one (args),
\* the adapter's result (api) and the text it returned (md), how far the
\* write of the output came (wr), and, for a file counted as failed, which
\* failure of the run it was (nth; 0 for none).
NoHist == [dec |-> "none", read |-> "none", calls |-> 0, args |-> NoCall,
           api |-> "none", md |-> None, wr |-> "none", nth |-> 0]

\* What is remembered of the previous run: it reached its summary; it did so
\* with no failure counted and no read error; its processed_count; the
\* time at which it started; and the files whose output it opened and left
\* without the whole text the adapter had returned.
NoPrev == [summary |-> FALSE, clean |-> FALSE, processed |-> 0, started |-> 0,
           partial |-> {}]

\* The content of an input file (fixed per file: inputs are only re-dated).
InputContent(f) == <<"text of", f.name[1]>>

Ended == {"idle", "returned", "raised", "killed"}
Running == {"mkroot", "scan", "loop", "stat", "compare", "read", "call",
            "mkdir", "open", "write", "summary"}

NoReq == [server_type |-> "lmstudio", model_identifier |-> NoneStr,
          api_key |-> NoneStr, max_tokens |-> NoTokens]
NoResult == [kind |-> "none", value |-> None, log |-> "none"]

\* call_llm_api is not running.
ApiIdle ==
    /\ api_pc = "idle"
    /\ req = NoReq
    /\ gets = <<>>
    /\ loaded_models = <<>>
    /\ loads = <<>>
    /\ posts = <<>>
    /\ api_result = NoResult

\* process_directory has not started: the locals and the bookkeeping.
BatchIdle ==
    /\ now = 0
    /\ run = 0
    /\ pc = "idle"
    /\ todo = {}
    /\ file_path = NoPath
    /\ output_file_path = NoPath
    /\ input_mtime = 0
    /\ output_mtime = 0
    /\ file_content = None
    /\ markdown_output = None
    /\ processed_count = 0
    /\ skipped_count = 0
    /\ failed_count = 0
    /\ connection_error_encountered = FALSE
    /\ logged = {}
    /\ hist = [f \in TxtEntries |-> NoHist]
    /\ removed = {}
    /\ started = 0
    /\ prev = NoPrev
    /\ out0 = outfs
    /\ touched = {}
    /\ changed = {}

Init ==
    /\ input_is_dir \in BOOLEAN
    /\ tree \in {t \in SUBSET Entries : FileN \in t /\ (~input_is_dir => t = {FileN})}
    /\ in_mtime \in [tree \cap TxtEntries -> Times]
    /\ enabled_flag \in BOOLEAN
    /\ force_reprocess_all_flag \in BOOLEAN
    /\ outfs \in OldOutputs(tree)
    /\ outdirs \in {d \in {{}, {<<>>}, {<<>>, <<"sub">>}} :
                       \A k \in OutKeys : outfs[k].exists => k.dir \in d}
    /\ BatchIdle
    /\ ApiIdle

\* Another run fits into the bounds.
MoreRuns == run < MaxRuns /\ (run + 1) * Cardinality(tree \cap TxtEntries) <= MaxVisits

\* The values of the loop's locals are dead once a file's step is over.
ResetLocals ==
    /\ file_path' = NoPath
    /\ output_file_path' = NoPath
    /\ input_mtime' = 0
    /\ output_mtime' = 0
    /\ file_content' = None
    /\ markdown_output' = None

\* ------------------------------------------------------- the environment
\* Time passes between two runs.
Tick ==
    /\ pc \in Ended /\ MoreRuns /\ now < MaxTime
    /\ now' = now + 1
    /\ UNCHANGED <<tree, input_is_dir, in_mtime, enabled_flag, force_reprocess_all_flag,
                   runvars, outdirs, outfs, pc, todo, locals, counters, logged, hist,
                   removed, apivars>>

\* Someone edits an input file between two runs.
Touch ==
    /\ pc \in Ended /\ run >= 1 /\ MoreRuns
    /\ \E f \in DOMAIN in_mtime :
          /\ in_mtime' = [in_mtime EXCEPT ![f] = now]
          /\ touched' = touched \cup {f}
    /\ UNCHANGED <<tree, input_is_dir, now, enabled_flag, force_reprocess_all_flag,
                   run, started, prev, out0, changed, outdirs, outfs, pc, todo, locals,
                   counters, logged, hist, removed, apivars>>

\* The process is killed from outside at any point of a run.
Kill ==
    /\ pc \in Running
    /\ pc' = "killed"
    /\ UNCHANGED <<envvars, runvars, outdirs, outfs, todo, locals, counters, logged,
                   hist, removed, apivars>>

\* ------------------------------------------------------ process_directory
\* main.py 22-54: a run starts; a configuration that cannot be loaded, or a
\* missing input directory, ends it at once.
StartRun ==
    /\ pc \in Ended /\ MoreRuns
    /\ run' = run + 1
    /\ \/ pc' = "returned" /\ logged' = {"config_error"}
       \/ IF InputDirOk(input_is_dir)
          THEN pc' = "mkroot" /\ logged' = {}
          ELSE pc' = "returned" /\ logged' = {"input_dir_error"}
    /\ todo' = {}
    /\ ResetLocals
    /\ processed_count' = 0
    /\ skipped_count' = 0
    /\ failed_count' = 0
    /\ connection_error_encountered' = FALSE
    /\ hist' = [f \in TxtEntries |-> NoHist]
    /\ removed' = {}
    /\ prev' = [summary |-> (pc = "returned" /\ "summary" \in logged),
                clean   |-> (pc = "returned" /\ "summary" \in logged
                             /\ failed_count = 0 /\ "read_error" \notin logged),
                processed |-> processed_count,
                started |-> started,
                partial |-> {f \in TxtEntries :
                               /\ hist[f].wr \in {"opened", "writefail"}
                               /\ outfs[OutputFilePath(f)].content # hist[f].md}]
    /\ started' = now
    /\ out0' = outfs
    /\ changed' = touched
    /\ touched' = {}
    /\ UNCHANGED <<envvars, outdirs, outfs, apivars>>

\* main.py 56: output_dir_path.mkdir(parents=True, exist_ok=True), outside
\* every try block.
EnsureOutputDir ==
    /\ pc = "mkroot"
    /\ \/ outdirs' = outdirs \cup {<<>>} /\ pc' = "scan"
       \/ <<>> \notin outdirs /\ outdirs' = outdirs /\ pc' = "raised"
    /\ UNCHANGED <<envvars, runvars, outfs, todo, locals, counters, logged, hist,
                   removed, apivars>>

\* main.py 59-74: the scan.
Scan ==
    /\ pc = "scan"
    /\ \/ /\ ~NoFilesFound(rglob(tree))
          /\ todo' = rglob(tree)
          /\ logged' = logged \cup {"found"}
          /\ pc' = "loop"
       \/ /\ NoFilesFound(rglob(tree))
          /\ todo' = {}
          /\ logged' = logged \cup {"no_files"}
          /\ pc' = "returned"
       \/ /\ todo' = {}
          /\ logged' = logged \cup {"scan_error"}
          /\ pc' = "returned"
    /\ UNCHANGED <<envvars, runvars, outdirs, outfs, locals, counters, hist, removed,
                   apivars>>

\* main.py 76-96 and 108-109: the next file, its output path, the branch of
\* the caching logic and, with caching, whether the output exists.
NextFile ==
    /\ pc = "loop" /\ todo # {}
    /\ \E f \in todo :
          LET ofp == OutputFilePath(f)
              br  == CachingBranch(force_reprocess_all_flag, enabled_flag)
          IN  /\ todo' = todo \ {f}
              /\ file_path' = f
              /\ output_file_path' = ofp
              /\ IF br = "cache"
                 THEN IF outfs[ofp].exists
                      THEN pc' = "stat" /\ hist' = hist
                      ELSE pc' = "read" /\ hist' = [hist EXCEPT ![f].dec = "missing"]
                 ELSE pc' = "read" /\ hist' = [hist EXCEPT ![f].dec = br]
    /\ UNCHANGED <<envvars, runvars, outdirs, outfs, input_mtime, output_mtime,
                   file_content, markdown_output, counters, logged, removed, apivars>>

\* main.py 98-99 and 106-107: the two stat calls.  Only FileNotFoundError
\* is caught; it means the output was removed since exists() saw it.
CacheStat ==
    /\ pc = "stat"
    /\ \/ /\ input_mtime' = in_mtime[file_path]
          /\ output_mtime' = outfs[output_file_path].mtime
          /\ pc' = "compare"
          /\ UNCHANGED <<outfs, removed, hist>>
       \/ /\ outfs' = [outfs EXCEPT ![output_file_path] = Absent]
          /\ removed' = removed \cup {file_path}
          /\ hist' = [hist EXCEPT ![file_path].dec = "notfound"]
          /\ pc' = "read"
          /\ UNCHANGED <<input_mtime, output_mtime>>
       \/ /\ hist' = [hist EXCEPT ![file_path].dec = "staterror"]
          /\ pc' = "raised"
          /\ UNCHANGED <<outfs, removed, input_mtime, output_mtime>>
    /\ UNCHANGED <<envvars, runvars, outdirs, todo, file_path, output_file_path,
                   file_content, markdown_output, counters, logged, apivars>>

\* main.py 100-105: the comparison of the two timestamps.
CacheCompare ==
    /\ pc = "compare"
    /\ IF UpToDate(output_mtime, input_mtime)
       THEN /\ skipped_count' = skipped_count + 1
            /\ hist' = [hist EXCEPT ![file_path].dec = "skip"]
            /\ pc' = "loop"
            /\ ResetLocals
       ELSE /\ skipped_count' = skipped_count
            /\ hist' = [hist EXCEPT ![file_path].dec = "older"]
            /\ pc' = "read"
            /\ UNCHANGED locals
    /\ UNCHANGED <<envvars, runvars, outdirs, outfs, todo, processed_count,
                   failed_count, connection_error_encountered, logged, removed, apivars>>

\* main.py 112-117: the input is read; a failure abandons the file.
\* (ReadInput_counted is the faulty variant that counts the abandoned file
\* as failed.)
ReadInput_counted ==
    /\ pc = "read"
    /\ \/ /\ file_content' = InputContent(file_path)
          /\ hist' = [hist EXCEPT ![file_path].read = "ok"]
          /\ pc' = "call"
          /\ UNCHANGED <<file_path, output_file_path, input_mtime, output_mtime,
                         markdown_output, logged, failed_count>>
       \/ /\ hist' = [hist EXCEPT ![file_path].read = "fail"]
          /\ logged' = logged \cup {"read_error"}
          /\ failed_count' = failed_count + 1
          /\ pc' = "loop"
          /\ ResetLocals
    /\ UNCHANGED <<envvars, runvars, outdirs, outfs, todo, processed_count,
                   skipped_count, connection_error_encountered, removed, apivars>>
ReadInput ==
    /\ pc = "read"
    /\ \/ /\ file_content' = InputContent(file_path)
          /\ hist' = [hist EXCEPT ![file_path].read = "ok"]
          /\ pc' = "call"
          /\ UNCHANGED <<file_path, output_file_path, input_mtime, output_mtime,
                         markdown_output, logged>>
       \/ /\ hist' = [hist EXCEPT ![file_path].read = "fail"]
          /\ logged' = logged \cup {"read_error"}
          /\ pc' = "loop"
          /\ ResetLocals
    /\ UNCHANGED <<envvars, runvars, outdirs, outfs, todo, counters, removed, apivars>>

\* main.py 119-138: the adapter is called; a failure is counted and the
\* first one sets connection_error_encountered.
CallApi ==
    /\ pc = "call"
    /\ \/ \E r \in AdapterReturns :
             IF IsFailure(r)
             THEN /\ failed_count' = failed_count + 1
                  /\ connection_error_encountered' =
                        (connection_error_encountered \/ FirstFailure(failed_count + 1))
                  /\ hist' = [hist EXCEPT ![file_path].calls = @ + 1,
                                          ![file_path].args = CallSite(file_content),
                                          ![file_path].api = "fail",
                                          ![file_path].md = r,
                                          ![file_path].nth = failed_count + 1]
                  /\ pc' = "loop"
                  /\ ResetLocals
             ELSE /\ markdown_output' = r
                  /\ hist' = [hist EXCEPT ![file_path].calls = @ + 1,
                                          ![file_path].args = CallSite(file_content),
                                          ![file_path].api = "ok",
                                          ![file_path].md = r]
                  /\ pc' = "mkdir"
                  /\ UNCHANGED <<failed_count, connection_error_encountered, file_path,
                                 output_file_path, input_mtime, output_mtime, file_content>>
       \/ /\ AdapterRaises
          /\ hist' = [hist EXCEPT ![file_path].calls = @ + 1,
                                  ![file_path].args = CallSite(file_content)]
          /\ pc' = "raised"
          /\ UNCHANGED <<locals, failed_count, connection_error_encountered>>
    /\ UNCHANGED <<envvars, runvars, outdirs, outfs, todo, processed_count,
                   skipped_count, logged, removed, apivars>>

\* main.py 140-150: the output path again and the parent directory, made
\* outside every try block.
MakeParent ==
    /\ pc = "mkdir"
    /\ output_file_path' = OutputFilePath(file_path)
    /\ LET d == OutputFilePath(file_path).dir
       IN  \/ outdirs' = outdirs \cup Prefixes(d) /\ pc' = "open"
           \/ d \notin outdirs /\ outdirs' = outdirs /\ pc' = "raised"
    /\ UNCHANGED <<envvars, runvars, outfs, todo, file_path, input_mtime, output_mtime,
                   file_content, markdown_output, counters, logged, hist, removed,
                   apivars>>

\* main.py 153 and 157-159: open(output_file_path, 'w') creates or truncates
\* the output; an IOError is counted as a failure.
OpenOutput ==
    /\ pc = "open"
    /\ \/ /\ outfs' = [outfs EXCEPT ![output_file_path] =
                          [exists |-> TRUE, mtime |-> now, content |-> <<>>]]
          /\ hist' = [hist EXCEPT ![file_path].wr = "opened"]
          /\ pc' = "write"
          /\ UNCHANGED <<locals, failed_count, logged>>
       \/ /\ outfs' = outfs
          /\ failed_count' = failed_count + 1
          /\ hist' = [hist EXCEPT ![file_path].wr = "openfail",
                                  ![file_path].nth = failed_count + 1]
          /\ logged' = logged \cup {"write_error"}
          /\ pc' = "loop"
          /\ ResetLocals
    /\ UNCHANGED <<envvars, runvars, outdirs, todo, processed_count, skipped_count,
                   connection_error_encountered, removed, apivars>>

\* main.py 154-159: the text is written and the file closed; an IOError
\* leaves what had been written so far and is counted as a failure; a text
\* that utf-8 cannot encode raises UnicodeEncodeError, which is no IOError.
WriteOutput ==
    /\ pc = "write"
    /\ \/ /\ outfs' = [outfs EXCEPT ![output_file_path] =
                          [exists |-> TRUE, mtime |-> now, content |-> markdown_output]]
          /\ processed_count' = processed_count + 1
          /\ hist' = [hist EXCEPT ![file_path].wr = "ok"]
          /\ pc' = "loop"
          /\ ResetLocals
          /\ UNCHANGED <<failed_count, logged>>
       \/ /\ \E part \in StrictPrefixes(markdown_output) \cup {<<>>} :
                outfs' = [outfs EXCEPT ![output_file_path] =
                             [exists |-> TRUE, mtime |-> now, content |-> part]]
          /\ failed_count' = failed_count + 1
          /\ hist' = [hist EXCEPT ![file_path].wr = "writefail",
                                  ![file_path].nth = failed_count + 1]
          /\ logged' = logged \cup {"write_error"}
          /\ pc' = "loop"
          /\ ResetLocals
          /\ UNCHANGED processed_count
       \/ /\ markdown_output # <<>>
          /\ pc' = "raised"
          /\ UNCHANGED <<outfs, hist, locals, processed_count, failed_count, logged>>
    /\ UNCHANGED <<envvars, runvars, outdirs, todo, skipped_count,
                   connection_error_encountered, removed, apivars>>

\* main.py 76: the loop is over.
LoopEnd ==
    /\ pc = "loop" /\ todo = {}
    /\ pc' = "summary"
    /\ UNCHANGED <<envvars, runvars, outdirs, outfs, todo, locals, counters, logged,
                   hist, removed, apivars>>

\* main.py 161-179: the summary and, after a flagged first failure, the
\* diagnostic block.
Summary ==
    /\ pc = "summary"
    /\ logged' = logged \cup {"complete", "summary"}
                   \cup (IF ShowDiagnostic(connection_error_encountered, failed_count)
                         THEN {"diagnostic"} ELSE {})
    /\ pc' = "returned"
    /\ UNCHANGED <<envvars, runvars, outdirs, outfs, todo, locals, counters, hist,
                   removed, apivars>>

\* ------------------------------------------------------------ call_llm_api
\* api_handler.py 46-79: the call is entered with its arguments.
ApiEnter ==
    /\ api_pc = "idle"
    /\ \E r \in Requests :
          /\ req' = r
          /\ api_pc' = IF NeedsReadiness(r) THEN "models" ELSE "post"
    /\ UNCHANGED <<batchvars, gets, loaded_models, loads, posts, api_result>>

\* api_handler.py 80-82: the snapshot of the loaded models.
ApiListModels ==
    /\ api_pc = "models"
    /\ \E g \in GetOutcomes \cup {SilentGet} :
          /\ gets' = Append(gets, [timeout |-> GetTimeout, answer |-> g])
          /\ IF Blocks(GetTimeout, g)
             THEN /\ api_pc' = "blocked"
                  /\ UNCHANGED <<loaded_models, api_result>>
             ELSE LET r == get_lmstudio_loaded_models(TimedOut(g))
                  IN  IF r.kind = "raise"
                      THEN /\ api_result' = Propagate(r.log)
                           /\ api_pc' = "done"
                           /\ UNCHANGED loaded_models
                      ELSE /\ loaded_models' = r.value
                           /\ api_pc' = IF NotLoaded(req.model_identifier, r.value)
                                        THEN "load" ELSE "post"
                           /\ UNCHANGED api_result
    /\ UNCHANGED <<batchvars, req, loads, posts>>

\* api_handler.py 83-85: the load attempt; its result only changes the log.
ApiLoadModel ==
    /\ api_pc = "load"
    /\ \E o \in LoadOutcomes :
          LET r == load_lmstudio_model(o)
          IN  /\ loads' = Append(loads, [model |-> req.model_identifier, outcome |-> o])
              /\ IF r.kind = "raise"
                 THEN api_result' = Propagate(r.log) /\ api_pc' = "done"
                 ELSE api_result' = api_result /\ api_pc' = "post"
    /\ UNCHANGED <<batchvars, req, gets, loaded_models, posts>>

\* api_handler.py 87-185: the request is built and sent, the answer handled.
ApiPost ==
    /\ api_pc = "post"
    /\ \E h \in HttpOutcomes \cup {SilentPost} :
          /\ posts' = Append(posts, [payload |-> Payload(req),
                                     headers |-> RequestHeaders(req),
                                     timeout |-> PostTimeout,
                                     answer  |-> h])
          /\ IF Blocks(PostTimeout, h)
             THEN api_pc' = "blocked" /\ UNCHANGED api_result
             ELSE /\ api_result' = HandlePost(req.server_type, TimedOut(h))
                  /\ api_pc' = "done"
    /\ UNCHANGED <<batchvars, req, gets, loaded_models, loads>>

Next ==
    \/ Tick
    \/ Touch
    \/ Kill
    \/ StartRun
    \/ EnsureOutputDir
    \/ Scan
    \/ NextFile
    \/ CacheStat
    \/ CacheCompare
    \/ ReadInput
    \/ CallApi
    \/ MakeParent
    \/ OpenOutput
    \/ WriteOutput
    \/ LoopEnd
    \/ Summary

Spec == Init /\ [][Next]_vars

\* call_llm_api on its own: one call with any arguments, against any backend.
InitApi ==
    /\ input_is_dir = FALSE
    /\ tree = {FileN}
    /\ in_mtime = [f \in {} |-> 0]
    /\ enabled_flag = TRUE
    /\ force_reprocess_all_flag = FALSE
    /\ outfs = [k \in OutKeys |-> Absent]
    /\ outdirs = {}
    /\ BatchIdle
    /\ ApiIdle

NextApi ==
    \/ ApiEnter
    \/ ApiListModels
    \/ ApiLoadModel
    \/ ApiPost

SpecApi == InitApi /\ [][NextApi]_vars

\* ================================================================= claims
\* The .txt files below the input root, and the path below the output root
\* that mirrors an input path: same directories, .txt replaced by .md.
TxtFiles == {e \in tree : e \in TxtEntries}
Mirror(f) == [dir |-> f.dir, name |-> <<f.name[1], "md">>]

\* Caching is enabled and reprocessing is not forced.
Cached == enabled_flag /\ ~force_reprocess_all_flag

\* The run has scanned the input tree and is in, or past, its loop.
InRun == "found" \in logged

\* The step of file f is over in the current run.
StepOver(f) == InRun /\ f \in TxtFiles /\ f \notin todo /\ file_path # f

\* The input f has not been modified since the run started.
Unmodified(f) == f \notin touched

\* When the run started, the output of f existed and was not older than f.
WasUpToDate(f) ==
    /\ Unmodified(f)
    /\ out0[Mirror(f)].exists
    /\ out0[Mirror(f)].mtime >= in_mtime[f]

\* When the run started, the output of f was missing or older than f.
WasStale(f) ==
    /\ Unmodified(f)
    /\ ~out0[Mirror(f)].exists \/ out0[Mirror(f)].mtime < in_mtime[f]

\* C1: with caching enabled and not forced, a file whose output exists with
\* a modification time greater than or equal to the input's is skipped:
\* the run never reads it, never calls the adapter for it and never writes
\* its output, its step ends with the decision Skip, and skipped_count
\* counts exactly the skipped files.
C1_SkipUpToDate ==
    /\ \A f \in TxtFiles :
          (InRun /\ Cached /\ WasUpToDate(f) /\ f \notin removed)
             => /\ hist[f].read = "none"
                /\ hist[f].calls = 0
                /\ hist[f].wr = "none"
                /\ outfs[Mirror(f)] = out0[Mirror(f)]
                /\ StepOver(f) => hist[f].dec = "skip"
    /\ skipped_count = Cardinality({f \in TxtEntries : hist[f].dec = "skip"})

\* C1 witness: a file whose output has exactly the input's timestamp has
\* been skipped and counted.
C1_Witness ==
    \E f \in TxtFiles :
       /\ Cached /\ StepOver(f) /\ f \notin removed /\ Unmodified(f)
       /\ out0[Mirror(f)].exists /\ out0[Mirror(f)].mtime = in_mtime[f]
       /\ hist[f].dec = "skip"
       /\ skipped_count >= 1

\* C2 as stated: with caching enabled and not forced, a file whose output is
\* missing or older than the input is read and the adapter is invoked for it.
C2_Original ==
    \A f \in TxtFiles :
       (Cached /\ WasStale(f) /\ StepOver(f))
          => hist[f].read = "ok" /\ hist[f].calls = 1

\* C2 amended: with caching enabled and not forced, a file whose output is
\* missing or older than the input gets the decision Process: it is never
\* skipped, its read is attempted, and the adapter is invoked for it exactly
\* when the read succeeds.
C2_ProcessStale ==
    \A f \in TxtFiles :
       (Cached /\ WasStale(f) /\ StepOver(f))
          => /\ hist[f].dec \in {"missing", "older", "notfound"}
             /\ hist[f].read \in {"ok", "fail"}
             /\ hist[f].read = "ok" => hist[f].calls = 1
             /\ hist[f].read = "fail" => hist[f].calls = 0

\* C2 witness: an existing output older than its input, and the adapter has
\* been invoked for the file.
C2_Witness ==
    \E f \in TxtFiles :
       /\ Cached /\ StepOver(f) /\ Unmodified(f)
       /\ out0[Mirror(f)].exists /\ out0[Mirror(f)].mtime < in_mtime[f]
       /\ hist[f].dec = "older" /\ hist[f].read = "ok" /\ hist[f].calls = 1

\* C3 as stated: with force_reprocess_all set or caching disabled the
\* adapter is invoked for every file.
C3_Original ==
    \A f \in TxtFiles :
       ((force_reprocess_all_flag \/ ~enabled_flag) /\ StepOver(f))
          => hist[f].calls = 1

\* C3 amended: with force_reprocess_all set or caching disabled no file is
\* skipped and no timestamp is looked at, whatever the output's state; the
\* adapter is invoked exactly when the read of the input succeeds; and
\* force_reprocess_all decides before the caching-enabled flag is looked at.
C3_ForcedOrDisabled ==
    \A f \in TxtFiles :
       ((force_reprocess_all_flag \/ ~enabled_flag) /\ StepOver(f))
          => /\ hist[f].dec = IF force_reprocess_all_flag THEN "forced" ELSE "disabled"
             /\ hist[f].read \in {"ok", "fail"}
             /\ hist[f].read = "ok" => hist[f].calls = 1
             /\ hist[f].read = "fail" => hist[f].calls = 0

\* C3 witness: forced with caching enabled, the output not older than the
\* input, and the adapter has been invoked.
C3_Witness ==
    \E f \in TxtFiles :
       /\ force_reprocess_all_flag /\ enabled_flag /\ StepOver(f)
       /\ WasUpToDate(f)
       /\ hist[f].dec = "forced" /\ hist[f].calls = 1

\* C4 as stated: a second run with caching enabled, not forced, and no
\* input changed since the first run invokes the adapter for no file and
\* has processed_count 0.
C4_Original ==
    (run >= 2 /\ Cached /\ prev.summary /\ changed = {} /\ touched = {})
       => /\ \A f \in TxtEntries : hist[f].calls = 0
          /\ processed_count = 0

\* C4 amended: the second run invokes the adapter for no file and has
\* processed_count 0 when, in addition, the first run ended with no failed
\* file and no read error, no input is dated later than the first run's
\* start, and no output is removed under the second run.
C4_Idempotent ==
    (/\ run >= 2 /\ Cached /\ prev.clean /\ changed = {} /\ touched = {}
     /\ removed = {}
     /\ \A f \in TxtFiles : in_mtime[f] <= prev.started)
       => /\ \A f \in TxtEntries : hist[f].calls = 0
          /\ processed_count = 0

\* C4 witness: the first run processed a file, the second run has reached
\* its summary having skipped files and processed none.
C4_Witness ==
    /\ run = 2 /\ Cached /\ prev.clean /\ changed = {} /\ touched = {}
    /\ removed = {}
    /\ \A f \in TxtFiles : in_mtime[f] <= prev.started
    /\ prev.processed >= 1
    /\ pc = "returned" /\ "summary" \in logged
    /\ skipped_count >= 1 /\ processed_count = 0

\* C5 as stated: when a run is killed, every output file is as it was when
\* the run started, or holds the complete text the adapter returned for its
\* input in this run.
C5_Original ==
    (pc = "killed" /\ removed = {}) =>
       \A k \in OutKeys :
          \/ outfs[k] = out0[k]
          \/ \E f \in TxtFiles : /\ k = Mirror(f)
                                 /\ hist[f].wr = "ok"
                                 /\ outfs[k].content = hist[f].md

\* C6 as stated: after the step of a file for which the adapter returned
\* text t, the mirrored output exists, holds exactly t, and the file has
\* been counted in processed_count.
C6_Original ==
    \A f \in TxtFiles :
       (StepOver(f) /\ hist[f].api = "ok")
          => /\ outfs[Mirror(f)].exists
             /\ outfs[Mirror(f)].content = hist[f].md
             /\ hist[f].wr = "ok"

\* C6 amended: after the step of a file for which the adapter returned text
\* t, either opening or writing the output failed, or the mirrored output
\* exists below its (created) parent directories and holds exactly t;
\* processed_count counts exactly the files written completely.
C6_RoundTrip ==
    /\ \A f \in TxtFiles :
          (StepOver(f) /\ hist[f].api = "ok")
             => hist[f].wr \in {"ok", "openfail", "writefail"}
    /\ \A f \in TxtFiles :
          (InRun /\ hist[f].wr = "ok")
             => /\ hist[f].api = "ok"
                /\ outfs[Mirror(f)].exists
                /\ outfs[Mirror(f)].content = hist[f].md
                /\ Prefixes(f.dir) \subseteq outdirs
    /\ processed_count = Cardinality({f \in TxtEntries : hist[f].wr = "ok"})

\* C6 witness: sub/b.txt has been written to sub/b.md, whose directory did
\* not exist when the run started.
C6_Witness ==
    /\ StepOver(FileB) /\ hist[FileB].wr = "ok"
    /\ ~out0[Mirror(FileB)].exists
    /\ outfs[Mirror(FileB)].content = hist[FileB].md
    /\ <<"sub">> \in outdirs
    /\ processed_count >= 1

\* The output directory held no file when the run started.
OutputDirEmpty == \A k \in OutKeys : ~out0[k].exists

\* The run has returned after its summary.
Completed == pc = "returned" /\ "summary" \in logged

\* C7 as stated: the adapter is invoked at most once per file and run, and
\* exactly once for every .txt file when the output directory is empty.
C7_Original ==
    /\ \A f \in TxtEntries : hist[f].calls <= 1
    /\ (Completed /\ OutputDirEmpty) => \A f \in TxtFiles : hist[f].calls = 1

\* C7 amended: the adapter is invoked at most once per file and run, also
\* after a failure; when the output directory is empty, every .txt file,
\* files in subdirectories included, is read once and the adapter is invoked
\* exactly once for each file whose read succeeded and not at all otherwise.
C7_OncePerFile ==
    /\ \A f \in TxtEntries : hist[f].calls <= 1
    /\ (Completed /\ OutputDirEmpty)
          => \A f \in TxtFiles :
                /\ hist[f].read \in {"ok", "fail"}
                /\ hist[f].read = "ok" => hist[f].calls = 1
                /\ hist[f].read = "fail" => hist[f].calls = 0

\* C7 witness: a.txt and sub/b.txt, output directory empty, two invocations,
\* the first of them a failure.
C7_Witness ==
    /\ Completed /\ OutputDirEmpty
    /\ TxtFiles = {FileA, FileB}
    /\ hist[FileA].calls = 1 /\ hist[FileB].calls = 1
    /\ \E f \in TxtFiles : hist[f].api = "fail"

\* The texts call_llm_api can extract from a response.
ExtractedTexts == {strip(s) : s \in Strings}

\* C8: call_llm_api never raises to its caller: whatever the readiness step
\* and the HTTP request do, no step of the call ends it with an exception,
\* and what it returns is an extracted text or None.
C8_NeverRaises ==
    /\ api_result.kind # "raise"
    /\ api_pc = "done"
          => /\ api_result.kind = "return"
             /\ api_result.value = None \/ api_result.value \in ExtractedTexts

\* C8 witness: the model had to be loaded, the load failed, and the request
\* ended in an exception that is no request error; None was returned.
C8_Witness ==
    /\ api_pc = "done"
    /\ Len(loads) = 1 /\ loads[1].outcome = "FileNotFoundError"
    /\ Len(posts) = 1
    /\ api_result = Return(None, "unexpected")

\* C9 as stated: a file for which the adapter failed has been counted in
\* failed_count and its output is as it was; and a run in which the adapter
\* failed for some file ends with every file attempted and the summary
\* logged.
C9_Original ==
    /\ \A f \in TxtFiles :
          (InRun /\ hist[f].api = "fail" /\ f \notin removed)
             => outfs[Mirror(f)] = out0[Mirror(f)] /\ hist[f].wr = "none"
    /\ failed_count >= Cardinality({f \in TxtEntries : hist[f].api = "fail"})
    /\ (pc \in {"returned", "raised"} /\ InRun /\ \E f \in TxtFiles : hist[f].api = "fail")
          => /\ Completed
             /\ \A g \in TxtFiles : hist[g].dec # "none"

\* C10 as stated: once the loop over the files has begun, no exception
\* leaves process_directory.
C10_Original == ~(InRun /\ pc = "raised")

\* The counters of the run count what the loop did: a file is counted as
\* processed when its output was written completely, as skipped when the
\* cache check skipped it, as failed when the adapter failed for it or its
\* output could not be opened or written.
CountersMatchHistory ==
    /\ processed_count = Cardinality({f \in TxtEntries : hist[f].wr = "ok"})
    /\ skipped_count = Cardinality({f \in TxtEntries : hist[f].dec = "skip"})
    /\ failed_count = Cardinality({f \in TxtEntries :
                          hist[f].api = "fail" \/ hist[f].wr \in {"openfail", "writefail"}})

\* What C11 says of the file whose read failed and of the counters.
C11_Abandoned ==
    /\ \A f \in TxtFiles :
          (InRun /\ hist[f].read = "fail")
             => /\ hist[f].calls = 0 /\ hist[f].api = "none" /\ hist[f].wr = "none"
                /\ hist[f].dec # "skip"
                /\ f \notin removed => outfs[Mirror(f)] = out0[Mirror(f)]
    /\ CountersMatchHistory
    /\ connection_error_encountered => \E f \in TxtFiles : hist[f].api = "fail"

\* C11 as stated: a file whose read failed is abandoned (no adapter call, no
\* write, no counter, no flag), and a run in which a read failed ends with
\* every file attempted and the summary logged.
C11_Original ==
    /\ C11_Abandoned
    /\ (pc \in {"returned", "raised"} /\ InRun /\ \E f \in TxtFiles : hist[f].read = "fail")
          => /\ Completed
             /\ \A g \in TxtFiles : hist[g].dec # "none"

\* The log lines with which a run ends before its scan has found a file.
EarlyErrors == {"config_error", "input_dir_error", "scan_error"}

\* C12: a run over an input directory without .txt files logs that no files
\* were found and returns at once: nothing else is logged (no completion
\* line, no summary), the adapter is invoked for no file, no counter and no
\* output changes; and no such run ever reaches the summary, so that this
\* end is distinct from the end of a run that iterated over files.
C12_NoFiles ==
    /\ "no_files" \in logged
          => /\ pc = "returned"
             /\ TxtFiles = {}
             /\ logged = {"no_files"}
             /\ \A f \in TxtEntries : hist[f] = NoHist
             /\ processed_count = 0 /\ skipped_count = 0 /\ failed_count = 0
             /\ outfs = out0
    /\ (TxtFiles = {} /\ run >= 1 /\ pc = "returned" /\ logged \cap EarlyErrors = {})
          => logged = {"no_files"}
    /\ Completed => (TxtFiles # {} /\ "found" \in logged /\ "no_files" \notin logged)

\* C12 witness: the input directory holds a file that is no .txt file, and
\* the run has returned after logging that no files were found.
C12_Witness ==
    /\ input_is_dir /\ tree = {FileN}
    /\ pc = "returned" /\ logged = {"no_files"}
    /\ <<>> \in outdirs

\* A step that starts a run.
RunStarts == run' = run + 1

\* What the start of a run leaves alone when the input root is missing: the
\* directories and files below the output root, and the output root itself.
OutputRootUntouched == outdirs' = outdirs /\ outfs' = outfs

\* C13: when the input root is missing or is not a directory, the step that
\* starts the run logs the error (unless the configuration could not be
\* loaded, which is logged instead) and returns, leaving the output root and
\* everything below it as it was; such a run scans nothing, reads nothing
\* and invokes the adapter for no file.
C13_InputRootMissing ==
    /\ [][(RunStarts /\ ~input_is_dir)
             => /\ pc' = "returned"
                /\ logged' \in {{"input_dir_error"}, {"config_error"}}
                /\ OutputRootUntouched
                /\ todo' = {}]_vars
    /\ [](~input_is_dir
             => /\ pc \in {"idle", "returned"}
                /\ todo = {}
                /\ \A f \in TxtEntries : hist[f] = NoHist
                /\ outfs = out0)

\* C13 witness: the run has returned with the error logged, and the output
\* root still does not exist.
C13_Witness ==
    /\ ~input_is_dir
    /\ pc = "returned" /\ logged = {"input_dir_error"}
    /\ outdirs = {}

\* The call is for BackendA (LM Studio), for BackendB (Ollama).
IsBackendA == Lower(req.server_type) = "lmstudio"
IsBackendB == Lower(req.server_type) = "ollama"

\* C14: in the request body sent to BackendA the field `model` is present
\* exactly when the model identifier is neither None nor the empty string,
\* and then it is that identifier.
C14_ModelField ==
    \A i \in 1..Len(posts) :
       IsBackendA
          => /\ "model" \in posts[i].payload.keys
                   <=> req.model_identifier \notin {NoneStr, ""}
             /\ "model" \in posts[i].payload.keys
                   => posts[i].payload.model = req.model_identifier

\* C14 witness: a request to BackendA with the empty string as model
\* identifier has been sent without the field.
C14_Witness ==
    /\ IsBackendA /\ req.model_identifier = ""
    /\ Len(posts) = 1 /\ "model" \notin posts[1].payload.keys

\* C15: in the request body sent to BackendA the field `max_tokens` is
\* present exactly when max_tokens is not None, and then it is the
\* configured number, 0 included.
C15_MaxTokensField ==
    \A i \in 1..Len(posts) :
       IsBackendA
          => /\ "max_tokens" \in posts[i].payload.keys <=> req.max_tokens # NoTokens
             /\ "max_tokens" \in posts[i].payload.keys
                   => posts[i].payload.max_tokens = req.max_tokens.n

\* C15 witness: a request to BackendA with a limit of MaxTokens carries it.
C15_Witness ==
    /\ IsBackendA /\ req.max_tokens = [given |-> TRUE, n |-> MaxTokens]
    /\ Len(posts) = 1
    /\ "max_tokens" \in posts[1].payload.keys
    /\ posts[1].payload.max_tokens = MaxTokens

\* C16 as stated: the request carries the Authorization header exactly when
\* the backend is BackendA and an API key is supplied; never for BackendB.
C16_Original ==
    \A i \in 1..Len(posts) :
       (IsBackendA \/ IsBackendB)
          => ("Authorization" \in posts[i].headers.keys
                 <=> (IsBackendA /\ req.api_key \notin {NoneStr, ""}))

\* The body BackendA answers with on success: an object whose `choices` is a
\* non-empty list, whose first element is an object with an object `message`
\* that has a string `content`.
WellFormedA(d) ==
    /\ d.t = "obj" /\ "choices" \in DOMAIN d.v
    /\ d.v["choices"].t = "list" /\ Len(d.v["choices"].v) >= 1
    /\ LET e == d.v["choices"].v[1]
       IN  /\ e.t = "obj" /\ "message" \in DOMAIN e.v
           /\ e.v["message"].t = "obj" /\ "content" \in DOMAIN e.v["message"].v
           /\ e.v["message"].v["content"].t = "str"
ContentA(d) == d.v["choices"].v[1].v["message"].v["content"].v

\* The backend answered with status 200 and a JSON body of that form.
GoodAnswerA(h) == h.kind = "response" /\ h.status = 200 /\ h.json /\ WellFormedA(h.doc)

\* C17: for BackendA, call_llm_api returns text exactly when the backend
\* answered with status 200 and a JSON body in which `choices` is a non-empty
\* list whose first element holds `message.content`; the text is that
\* content without its leading and trailing whitespace; for every other
\* answer it returns None.
C17_BackendAText ==
    \A i \in 1..Len(posts) :
       (IsBackendA /\ api_pc = "done")
          => IF GoodAnswerA(posts[i].answer)
             THEN api_result = Return(strip(ContentA(posts[i].answer.doc)), "ok")
             ELSE api_result.kind = "return" /\ api_result.value = None

\* C17 witness: BackendA answered with the content "#", which was returned.
C17_Witness ==
    /\ IsBackendA /\ api_pc = "done" /\ Len(posts) = 1
    /\ GoodAnswerA(posts[1].answer)
    /\ ContentA(posts[1].answer.doc) = <<"#">>
    /\ api_result.value = <<"#">>

\* The cause of a failed request, as the answer shows it: one of the five
\* causes of C18, a malformed response, or none of these.
Cause(h) ==
    CASE h.kind = "raise" /\ h.exc = "Timeout"                -> "timeout"
      [] h.kind = "raise" /\ h.exc = "ConnectionError"        -> "connection"
      [] h.kind = "raise" /\ h.exc = "RuntimeError"           -> "unexpected"
      [] h.kind = "response" /\ h.status \in {404, 500}       -> "status"
      [] h.kind = "response" /\ h.status = 200 /\ ~h.json     -> "json"
      [] h.kind = "response" /\ h.status = 200 /\ h.json /\ ~WellFormedA(h.doc)
                                                              -> "structure"
      [] OTHER                                                -> "other"

\* C18 as stated: each of the five causes is reported as itself, and a
\* malformed response of BackendA is reported as malformed, never as one of
\* the five (in particular not as an unexpected exception).
C18_Original ==
    \A i \in 1..Len(posts) :
       (IsBackendA /\ api_pc = "done" /\ Cause(posts[i].answer) # "other")
          => api_result.log = Cause(posts[i].answer)

\* C19 as stated: every adapter call gets the file's content, the
\* configured API URL, server type and API key, and the configured timeout,
\* model identifier, system prompt, temperature, max_tokens and context
\* length; the server type the adapter dispatches on is the configured one.
C19_Original ==
    \A f \in TxtFiles :
       hist[f].calls >= 1
          => /\ Bound(hist[f].args, "text_content") = InputContent(f)
             /\ Bound(hist[f].args, "api_url") = Config.api_url
             /\ Bound(hist[f].args, "server_type") = Config.type
             /\ Bound(hist[f].args, "api_key") = Config.api_key
             /\ Bound(hist[f].args, "timeout") = Config.api_timeout
             /\ Bound(hist[f].args, "model_identifier") = Config.model_identifier
             /\ Bound(hist[f].args, "system_prompt") = Config.system_prompt
             /\ Bound(hist[f].args, "temperature") = Config.temperature
             /\ Bound(hist[f].args, "max_tokens") = Config.max_tokens
             /\ "context_length" \in Passed(hist[f].args)


\* C20 as stated: with caching enabled and not forced, a file for which a
\* stat of the timestamp comparison failed with a filesystem error other
\* than file-not-found is processed: the run is not aborted, and the file
\* is not skipped but read.
C20_Original ==
    \A f \in TxtFiles :
       (Cached /\ InRun /\ hist[f].dec = "staterror")
          => /\ pc # "raised"
             /\ StepOver(f) => hist[f].read \in {"ok", "fail"}


\* C21: a model load is triggered in a call exactly when the backend is
\* BackendA, the model identifier is neither None nor empty, and the
\* identifier is not in the snapshot of loaded models fetched in this call;
\* at most one load is triggered, and none before the snapshot is there.
C21_LoadTrigger ==
    /\ Len(loads) <= 1
    /\ api_pc \in {"idle", "models", "blocked"} /\ posts = <<>> => loads = <<>>
    /\ api_pc \in {"post", "done"}
          => (Len(loads) = 1
                <=> /\ req.server_type \in {"lmstudio", "LMStudio"}
                    /\ req.model_identifier \notin {NoneStr, ""}
                    /\ Len(gets) = 1
                    /\ \A i \in 1..Len(loaded_models) :
                          loaded_models[i] # req.model_identifier)
    /\ \A i \in 1..Len(loads) : loads[i].model = req.model_identifier

\* C21 witness: the snapshot holds another model only; the load was
\* triggered and the request sent.
C21_Witness ==
    /\ api_pc = "done" /\ req.model_identifier = "m"
    /\ loaded_models = <<"x">> /\ Len(loads) = 1 /\ Len(posts) = 1


\* C22: a model load never blocks the API call: whatever the load attempt
\* ends in (exit code 0 or not, timeout, `lms` not found, any other error),
\* load_lmstudio_model returns a boolean and raises nothing, the step after
\* the load attempt is the chat-completion request, and the call sends that
\* request exactly once.
C22_LoadAdvisory ==
    /\ [][api_pc = "load" => api_pc' = "post" /\ Len(loads') = 1 /\ posts' = <<>>]_vars
    /\ [](/\ Len(posts) <= 1
          /\ \A i \in 1..Len(loads) :
                /\ load_lmstudio_model(loads[i].outcome).kind = "return"
                /\ load_lmstudio_model(loads[i].outcome).value \in BOOLEAN
                /\ api_result.kind # "raise"
                /\ api_pc \in {"post", "done", "blocked"}
                /\ api_pc = "post" => posts = <<>>
                /\ api_pc \in {"done", "blocked"} => Len(posts) = 1)

\* C22 witness: the load attempt timed out, and the request was sent once.
C22_Witness ==
    /\ api_pc = "done"
    /\ Len(loads) = 1 /\ loads[1].outcome = "TimeoutExpired"
    /\ Len(posts) = 1 /\ posts[1].answer.kind = "response"

\* C23: get_lmstudio_loaded_models is best effort: whenever the GET returns
\* or raises, the function raises nothing; for a 200 answer whose body is
\* an object with a list `data` of entries that all have an `id` it returns
\* these ids in order (none without `data`), and for every other answer
\* (an exception of the request, another status, no JSON, JSON of another
\* shape) it returns the empty list.
C23_ListBestEffort ==
    \A i \in 1..Len(gets) :
       LET g == gets[i].answer
       IN  g.kind # "silent"
              => /\ api_result.kind # "raise"
                 /\ api_pc # "models"
                 /\ loaded_models =
                       IF /\ g.kind = "response" /\ g.status = 200 /\ g.shape = "data"
                          /\ \A j \in 1..Len(g.data) : g.data[j] # NoId
                       THEN g.data ELSE <<>>

\* C23 witness: the body listed an entry without `id`; the empty list was
\* returned and the call went on to its request.
C23_Witness ==
    /\ Len(gets) = 1 /\ gets[1].answer.status = 200
    /\ gets[1].answer.data = <<"m", NoId>>
    /\ loaded_models = <<>>
    /\ api_pc = "done" /\ Len(posts) = 1


\* The first failure the run counted was a failure of the adapter.
FirstFailureByAdapter ==
    \E f \in TxtEntries : hist[f].nth = 1 /\ hist[f].api = "fail"

\* C24: the diagnostic block is logged at the summary and nowhere else, and
\* at the summary exactly when the run counted a failure and the first one
\* it counted was a failure of the adapter (of whatever cause), which is
\* exactly when the flag is set.
C24_Diagnostic ==
    /\ "diagnostic" \in logged => Completed /\ InRun
    /\ InRun => (connection_error_encountered <=> FirstFailureByAdapter)
    /\ (Completed /\ InRun)
          => ("diagnostic" \in logged <=> (failed_count >= 1 /\ FirstFailureByAdapter))

\* C24 witness: a run whose first failure was a failed write and whose
\* second one was a failure of the adapter ended without the block.
C24_Witness ==
    /\ Completed /\ failed_count = 2 /\ "diagnostic" \notin logged
    /\ \E f \in TxtFiles : hist[f].nth = 2 /\ hist[f].api = "fail"


\* C25 as stated: the request body sent to BackendB has exactly the fields
\* model, messages, stream, options.temperature and options.num_predict
\* (so neither max_tokens nor a top-level temperature); num_predict is the
\* configured token limit when one is configured and -1 when none is.
C25_Original ==
    \A i \in 1..Len(posts) :
       IsBackendB
          => /\ posts[i].payload.keys = {"model", "messages", "stream",
                                         "options.temperature", "options.num_predict"}
             /\ posts[i].payload.model = req.model_identifier
             /\ posts[i].payload.num_predict =
                   IF req.max_tokens = NoTokens THEN -1 ELSE req.max_tokens.n


\* C26 as stated: every network call of a call_llm_api, the listing GET and
\* the chat-completion POST, is made with the timeout, and none waits
\* without limit for a server that never answers.
C26_Original ==
    /\ \A i \in 1..Len(gets) : gets[i].timeout # NoneStr
    /\ \A i \in 1..Len(posts) : posts[i].timeout # NoneStr
    /\ api_pc # "blocked"


\* C27 as stated: a file that a run with caching enabled skips as up to
\* date has an output that holds a complete text of the adapter: the file
\* is none of those whose output the run before opened and left empty or
\* with a part of the text only (a failed or an interrupted write).
C27_Original ==
    \A f \in TxtFiles :
       (Cached /\ InRun /\ hist[f].dec = "skip" /\ Unmodified(f))
          => f \notin prev.partial


\* The files the loop has taken from the scan's list so far, and the files
\* counted by each of the three counters.
Visited == rglob(tree) \ todo
CountedProcessed == {f \in TxtEntries : hist[f].wr = "ok"}
CountedSkipped == {f \in TxtEntries : hist[f].dec = "skip"}
CountedFailed ==
    {f \in TxtEntries : hist[f].api = "fail" \/ hist[f].wr \in {"openfail", "writefail"}}

\* C28: in a run, no file is counted by two counters, every counter is the
\* number of files it counted (one step per file), the sum of the three is
\* at most the number of files visited so far, and at the summary it is the
\* number of files found minus the number of files whose read failed.
C28_Counters ==
    InRun
       => /\ CountedProcessed \cap CountedSkipped = {}
          /\ CountedProcessed \cap CountedFailed = {}
          /\ CountedSkipped \cap CountedFailed = {}
          /\ processed_count = Cardinality(CountedProcessed)
          /\ skipped_count = Cardinality(CountedSkipped)
          /\ failed_count = Cardinality(CountedFailed)
          /\ CountedProcessed \cup CountedSkipped \cup CountedFailed \subseteq Visited
          /\ processed_count + skipped_count + failed_count <= Cardinality(Visited)
          /\ Completed
                => processed_count + skipped_count + failed_count
                      = Cardinality(rglob(tree))
                          - Cardinality({f \in TxtEntries : hist[f].read = "fail"})

\* C28 witness: a run over two files ended with one processed and one
\* abandoned after a failed read.
C28_Witness ==
    /\ Completed /\ Cardinality(rglob(tree)) = 2
    /\ processed_count = 1 /\ skipped_count = 0 /\ failed_count = 0
    /\ \E f \in TxtFiles : hist[f].read = "fail"


\* C29: the frame of a run.  Apart from outputs that vanish under the run,
\* an output differs from what it was when the run started only if it is
\* the mirrored output of a file for which the adapter returned a text in
\* this run; the output of a file that was skipped, whose read failed or
\* for which the adapter failed is as it was, content and modification
\* time; and no step of a run changes the input tree or the modification
\* time of an input.
C29_Frame ==
    /\ [][(pc \in Running) => (tree' = tree /\ in_mtime' = in_mtime)]_vars
    /\ [](InRun
            => /\ \A k \in OutKeys :
                     outfs[k] # out0[k]
                        => \E f \in TxtFiles :
                              /\ k = Mirror(f)
                              /\ f \in removed \/ (hist[f].calls = 1 /\ hist[f].md # None)
               /\ \A f \in TxtFiles :
                     (/\ f \notin removed
                      /\ \/ hist[f].dec = "skip"
                         \/ hist[f].read = "fail"
                         \/ hist[f].api = "fail")
                        => outfs[Mirror(f)] = out0[Mirror(f)])

\* C29 witness: of two files with outputs, one was written anew and the
\* other, for which the adapter failed, kept its output.
C29_Witness ==
    /\ Completed /\ removed = {}
    /\ \E f, g \in TxtFiles :
          /\ hist[f].wr = "ok" /\ out0[Mirror(f)].exists /\ outfs[Mirror(f)] # out0[Mirror(f)]
          /\ hist[g].api = "fail" /\ out0[Mirror(g)].exists
          /\ outfs[Mirror(g)] = out0[Mirror(g)]


\* A 200 answer of the backend whose content is a single blank.
BlankAnswer(st) ==
    [kind |-> "response", exc |-> "none", status |-> 200, json |-> TRUE,
     doc |-> IF Lower(st) = "ollama"
             THEN JObj1("message", JObj1("content", JStr(<<" ">>)))
             ELSE JObj1("choices",
                        JList(<<JObj1("message", JObj1("content", JStr(<<" ">>)))>>))]

\* C30: an answer whose content is blank is a Success with the empty text:
\* call_llm_api returns the empty string for it; a file for which the
\* adapter returned the empty string is not counted as failed by the
\* adapter's result, its output, once written, exists and is empty, and it
\* is counted as processed; and a later run with caching enabled skips a
\* file whose empty output is not older than the input.
C30_EmptySuccess ==
    /\ \A st \in ServerTypes : HandlePost(st, BlankAnswer(st)) = Return(<<>>, "ok")
    /\ \A f \in TxtFiles :
          (InRun /\ hist[f].calls = 1 /\ hist[f].md = <<>>)
             => /\ hist[f].api = "ok"
                /\ hist[f].nth = 0 \/ hist[f].wr \in {"openfail", "writefail"}
                /\ hist[f].wr = "ok"
                      => /\ outfs[Mirror(f)].exists
                         /\ outfs[Mirror(f)].content = <<>>
                         /\ f \in CountedProcessed
                         /\ processed_count = Cardinality(CountedProcessed)
    /\ \A f \in TxtFiles :
          (/\ InRun /\ Cached /\ WasUpToDate(f) /\ f \notin removed
           /\ out0[Mirror(f)].content = <<>> /\ StepOver(f))
             => hist[f].dec = "skip" /\ hist[f].calls = 0

\* C30 witness: the first run ended with no failure, having written an
\* empty output; the second run has skipped that file.
C30_Witness ==
    /\ run = 2 /\ Cached /\ prev.clean /\ prev.processed >= 1 /\ prev.partial = {}
    /\ \E f \in TxtFiles :
          /\ WasUpToDate(f) /\ StepOver(f) /\ f \notin removed
          /\ out0[Mirror(f)].content = <<>>
          /\ hist[f].dec = "skip"

====
